---- MODULE Spec2Model ----
(***************************************************************************)
(* A state-machine model of Programs/wavm-run/wavm-run.cpp: the command    *)
(* line scan of main(), the pipeline of run() and the import resolver      *)
(* RootResolver (resolve, getStubObject).                                  *)
(***************************************************************************)
EXTENDS Integers, Sequences, FiniteSets, TLC

(* ------------------------------ bounds --------------------------------- *)
\* Largest number of command-line tokens after argv[0].
MaxArgs == 3
\* Largest number of import declarations of the loaded module.
MaxImports == 2
\* Largest parameter count of an exported entry-point function.
MaxParams == 3

(* --------------------------- program constants ------------------------- *)
EXIT_SUCCESS == 0
EXIT_FAILURE == 1

(* ------------------------------ values --------------------------------- *)
\* Command-line tokens: the two help spellings and an ordinary token.
Tokens == {"--help", "-h", "prog.wast"}
\* options.filename == nullptr
NoFile == ""

\* IR::ExternKind as switched on by getStubObject.
StubKinds == {"function", "memory", "table", "global", "exceptionType"}

\* An ExternType: the kind and its structural signature.  function: a = number
\* of parameters, b = number of results; memory/table: a = min, b = max size;
\* global: a = value type, b = mutability; exceptionType: a = signature.
ExternTypeOf(k, a, b) == [kind |-> k, a |-> a, b |-> b]

\* The null Object pointer.
ObjectId(origin, name, n) == [origin |-> origin, name |-> name, n |-> n]
NullObject == [stub |-> FALSE, id |-> ObjectId("null", "", 0),
               type |-> ExternTypeOf("invalid", 0, 0), body |-> "none", value |-> 0]

\* An object exported by a registered instance; its identity is where it lives.
ExportObject(m, n, t) ==
    [stub |-> FALSE, id |-> ObjectId(m, n, 0), type |-> t,
     body |-> IF t.kind = "function" THEN "native" ELSE "none", value |-> 0]

\* Type compatibility of an object with an expected extern type: structural
\* equality, except that memory and table limits only have to be satisfied.
IsA(obj, type) ==
    /\ obj # NullObject
    /\ obj.type.kind = type.kind
    /\ IF type.kind \in {"memory", "table"}
       THEN obj.type.a >= type.a /\ obj.type.b <= type.b
       ELSE obj.type.a = type.a /\ obj.type.b = type.b

\* The export tables of the two instances of the Emscripten shim.
EmscriptenExports ==
    [env |-> [f |-> ExternTypeOf("function", 1, 1), memory |-> ExternTypeOf("memory", 1, 2)],
     asm2wasm |-> [f |-> ExternTypeOf("function", 0, 1)]]

\* The import declarations a loaded module is built from.
ImportDecl(m, n, t) == [moduleName |-> m, exportName |-> n, type |-> t]
ImportDecls ==
    { ImportDecl("env", "f", ExternTypeOf("function", 1, 1)),
      ImportDecl("env", "f", ExternTypeOf("function", 0, 1)),
      ImportDecl("env", "missingFn", ExternTypeOf("function", 0, 0)),
      ImportDecl("env", "memory", ExternTypeOf("memory", 0, 2)),
      ImportDecl("wasi", "g", ExternTypeOf("global", 0, 1)) }

SeqsUpTo(S, n) == UNION { [1..k -> S] : k \in 0..n }

(* ------------------------------- state --------------------------------- *)
VARIABLES
    pc,               \* position of the single thread of control in main()/run()
    argv,             \* the command-line tokens after argv[0]
    args,             \* options.args, as an index into argv (0 is argv[0])
    filename,         \* options.filename
    helpShown,        \* number of calls of showHelp
    exitStatus,       \* the values returned from main, in order (at most one)
    fatal,            \* cause of fatal termination, "" while there is none
    stages,           \* the pipeline stages entered so far, in order
    irModule,         \* the IR::Module of run()
    emscriptenInstance,       \* TRUE iff Emscripten::instantiate returned non-null
    moduleNameToInstanceMap,  \* RootResolver's registry: module name -> export table
    linkResult,       \* the LinkResult being built by linkModule
    resolveLog,       \* the calls of RootResolver::resolve so far, with their outcome
    stubCount,        \* number of stub objects created in the compartment
    moduleInstance,   \* the main module's instance: its exports, or not live
    startFunction,    \* TRUE iff getStartFunction returned a function
    globalsInit,      \* number of calls of Emscripten::initializeGlobals
    lookups,          \* the export names looked up for the entry point, in order
    function,         \* the entry-point Function*, NullObject for nullptr
    injections,       \* the calls of Emscripten::injectCommandArgs
    invokeArgs,       \* the argument vector passed to the entry point
    invocations,      \* the calls of invokeFunctionChecked
    functionResults   \* the IR::ValueTuple returned by the entry point

vars == <<pc, argv, args, filename, helpShown, exitStatus, fatal, stages, irModule,
          emscriptenInstance, moduleNameToInstanceMap, linkResult, resolveLog,
          stubCount, moduleInstance, startFunction, globalsInit, lookups, function,
          injections, invokeArgs, invocations, functionResults>>

mainVars == <<argv, args, filename, helpShown>>
linkVars == <<linkResult, resolveLog, stubCount>>
entryVars == <<lookups, function, injections, invokeArgs, functionResults>>

EmptyModule == [imports |-> <<>>]
EmptyLinkResult == [resolvedImports |-> <<>>, missingImports |-> <<>>, success |-> FALSE]
NoInstance == [live |-> FALSE, main |-> NullObject, umain |-> NullObject]

Init ==
    /\ pc = "scan"
    /\ argv \in SeqsUpTo(Tokens, MaxArgs)
    /\ args = 0
    /\ filename = NoFile
    /\ helpShown = 0
    /\ exitStatus = <<>>
    /\ fatal = ""
    /\ stages = <<>>
    /\ irModule = EmptyModule
    /\ emscriptenInstance = FALSE
    /\ moduleNameToInstanceMap = <<>>
    /\ linkResult = EmptyLinkResult
    /\ resolveLog = <<>>
    /\ stubCount = 0
    /\ moduleInstance = NoInstance
    /\ startFunction = FALSE
    /\ globalsInit = 0
    /\ lookups = <<>>
    /\ function = NullObject
    /\ injections = <<>>
    /\ invokeArgs = <<>>
    /\ invocations = <<>>
    /\ functionResults = <<>>

\* return status; from main() or from run(), whose value main() returns.
Return(status) ==
    /\ exitStatus' = Append(exitStatus, status)
    /\ pc' = "done"
    /\ fatal' = fatal

\* Fatal termination of the process: no value is returned from main().
Fatal(cause) ==
    /\ fatal' = cause
    /\ pc' = "done"
    /\ exitStatus' = exitStatus

Goto(label) ==
    /\ pc' = label
    /\ exitStatus' = exitStatus
    /\ fatal' = fatal

Enter(stage) == stages' = Append(stages, stage)

(* ------------------------------- main() -------------------------------- *)
\* Mutant: only the long spelling is recognised.
IsHelpLongOnly(token) == token = "--help"

IsHelp(token) == token = "--help" \/ token = "-h"

\* One test of the loop condition *++options.args and, when it is non-null,
\* one execution of the loop body.
ScanArg ==
    /\ pc = "scan"
    /\ args' = args + 1
    /\ IF args + 1 > Len(argv)
       THEN /\ Goto("scanned")
            /\ UNCHANGED <<filename, helpShown>>
       ELSE IF IsHelp(argv[args + 1])
       THEN /\ helpShown' = helpShown + 1
            /\ Return(EXIT_SUCCESS)
            /\ UNCHANGED filename
       ELSE IF filename = NoFile
       THEN /\ filename' = argv[args + 1]
            /\ Goto("scan")
            /\ UNCHANGED helpShown
       ELSE /\ Goto("scanned")
            /\ UNCHANGED <<filename, helpShown>>
    /\ UNCHANGED <<argv, stages, irModule, emscriptenInstance, moduleNameToInstanceMap,
                   moduleInstance, startFunction, globalsInit, invocations>>
    /\ UNCHANGED linkVars
    /\ UNCHANGED entryVars

\* After the loop: the missing-filename check, the unhandled-exception handler
\* and the call of run().
AfterScan ==
    /\ pc = "scanned"
    /\ IF filename = NoFile
       THEN /\ helpShown' = helpShown + 1
            /\ Return(EXIT_FAILURE)
       ELSE /\ Goto("load")
            /\ UNCHANGED helpShown
    /\ UNCHANGED <<argv, args, filename, stages, irModule, emscriptenInstance,
                   moduleNameToInstanceMap, moduleInstance, startFunction, globalsInit,
                   invocations>>
    /\ UNCHANGED linkVars
    /\ UNCHANGED entryVars

(* ---------------------------- RootResolver ----------------------------- *)
\* getInstanceExport: the named export of an instance, or nullptr.
GetInstanceExport(exports, moduleName, exportName) ==
    IF exportName \in DOMAIN exports
    THEN ExportObject(moduleName, exportName, exports[exportName])
    ELSE NullObject

\* Mutant: a stub global is created mutable, whatever mutability was asked.
GetStubObjectMutableGlobal(exportName, type, n) ==
    [stub |-> TRUE, id |-> ObjectId("importStub", exportName, n + 1),
     type |-> IF type.kind = "global" THEN ExternTypeOf("global", type.a, 1) ELSE type,
     body |-> IF type.kind = "function" THEN "unreachable" ELSE "none",
     value |-> 0]

\* Mutant: one stub per export name is kept and handed out again.
GetStubObjectCached(exportName, type, n) ==
    [stub |-> TRUE, id |-> ObjectId("importStub", exportName, 1),
     type |-> type,
     body |-> IF type.kind = "function" THEN "unreachable" ELSE "none",
     value |-> 0]

\* Mutant: every stub is synthesized as a function, whatever kind was asked.
GetStubObjectAsFunction(exportName, type, n) ==
    [stub |-> TRUE, id |-> ObjectId("importStub", exportName, n + 1),
     type |-> ExternTypeOf("function", type.a, type.b), body |-> "unreachable",
     value |-> 0]

\* Mutant: the body of a stub function returns instead of trapping.
GetStubObjectReturning(exportName, type, n) ==
    [stub |-> TRUE, id |-> ObjectId("importStub", exportName, n + 1), type |-> type,
     body |-> IF type.kind = "function" THEN "native" ELSE "none",
     value |-> 0]

\* getStubObject for the five extern kinds; n is the number of stubs created
\* before, which makes every stub a new object of the compartment.
GetStubObject(exportName, type, n) ==
    [stub |-> TRUE, id |-> ObjectId("importStub", exportName, n + 1), type |-> type,
     body |-> IF type.kind = "function" THEN "unreachable" ELSE "none",
     value |-> 0]

\* The default branch of getStubObject's switch: Errors::unreachable().
StubKindUnreachable(type) == type.kind \notin StubKinds

\* Mutant: an export of an incompatible type falls through to a stub.
ResolveStubsMismatch(map, moduleName, exportName, type, n) ==
    LET outObject == IF moduleName \in DOMAIN map
                     THEN GetInstanceExport(map[moduleName], moduleName, exportName)
                     ELSE NullObject
    IN  IF outObject # NullObject /\ IsA(outObject, type)
        THEN [ret |-> TRUE, outObject |-> outObject, stubbed |-> FALSE]
        ELSE [ret |-> TRUE, outObject |-> GetStubObject(exportName, type, n),
              stubbed |-> TRUE]

\* Mutant: an absent module or export fails the import instead of stubbing it.
ResolveStrict(map, moduleName, exportName, type, n) ==
    LET outObject == IF moduleName \in DOMAIN map
                     THEN GetInstanceExport(map[moduleName], moduleName, exportName)
                     ELSE NullObject
    IN  [ret |-> IsA(outObject, type), outObject |-> outObject, stubbed |-> FALSE]

\* RootResolver::resolve: the returned bool, outObject, and whether the call
\* fell through to getStubObject.
Resolve(map, moduleName, exportName, type, n) ==
    LET outObject == IF moduleName \in DOMAIN map
                     THEN GetInstanceExport(map[moduleName], moduleName, exportName)
                     ELSE NullObject
    IN  IF outObject # NullObject
        THEN [ret |-> IsA(outObject, type), outObject |-> outObject, stubbed |-> FALSE]
        ELSE [ret |-> TRUE, outObject |-> GetStubObject(exportName, type, n),
              stubbed |-> TRUE]

\* linkModule's handling of one resolved import: a binding is collected in
\* resolvedImports, a failure in missingImports.
LinkImport(result, decl, r) ==
    IF r.ret
    THEN [result EXCEPT !.resolvedImports = Append(@, r.outObject)]
    ELSE [result EXCEPT !.missingImports = Append(@, decl)]

\* linkModule's verdict: success is an empty missing-imports list.
LinkSuccess(result) == result.missingImports = <<>>

(* -------------------------------- run() -------------------------------- *)
\* loadModule: the file cannot be read, cannot be parsed, or yields a module.
LoadOutcomes == {"unreadable", "parseError", "ok"}

Load ==
    /\ pc = "load"
    /\ Enter("Load")
    /\ \E outcome \in LoadOutcomes :
          IF outcome = "ok"
          THEN /\ \E imports \in SeqsUpTo(ImportDecls, MaxImports) :
                      irModule' = [imports |-> imports]
               /\ Goto("compile")
          ELSE /\ Return(EXIT_FAILURE)
               /\ UNCHANGED irModule
    /\ UNCHANGED <<emscriptenInstance, moduleNameToInstanceMap, moduleInstance,
                   startFunction, globalsInit, invocations>>
    /\ UNCHANGED mainVars
    /\ UNCHANGED linkVars
    /\ UNCHANGED entryVars

\* Runtime::compileModule, then the compartment, the context and the resolver
\* with its empty registry.
Compile ==
    /\ pc = "compile"
    /\ Enter("Compile")
    /\ moduleNameToInstanceMap' = <<>>
    /\ Goto("shim")
    /\ UNCHANGED <<irModule, emscriptenInstance, moduleInstance, startFunction,
                   globalsInit, invocations>>
    /\ UNCHANGED mainVars
    /\ UNCHANGED linkVars
    /\ UNCHANGED entryVars

\* Mutant: env and asm2wasm are registered whether or not there is a shim.
InstantiateShimAlwaysRegisters ==
    /\ pc = "shim"
    /\ Enter("InstantiateShim")
    /\ \E instance \in BOOLEAN :
          /\ emscriptenInstance' = instance
          /\ moduleNameToInstanceMap' =
                ("asm2wasm" :> EmscriptenExports.asm2wasm)
                @@ ("env" :> EmscriptenExports.env) @@ moduleNameToInstanceMap
    /\ Goto("link")
    /\ UNCHANGED <<irModule, moduleInstance, startFunction, globalsInit, invocations>>
    /\ UNCHANGED mainVars
    /\ UNCHANGED linkVars
    /\ UNCHANGED entryVars

\* Emscripten::instantiate, and the registration of env and asm2wasm when it
\* returned an instance.
InstantiateShim ==
    /\ pc = "shim"
    /\ Enter("InstantiateShim")
    /\ \E instance \in BOOLEAN :
          /\ emscriptenInstance' = instance
          /\ moduleNameToInstanceMap' =
                IF instance
                THEN ("asm2wasm" :> EmscriptenExports.asm2wasm)
                     @@ ("env" :> EmscriptenExports.env) @@ moduleNameToInstanceMap
                ELSE moduleNameToInstanceMap
    /\ Goto("link")
    /\ UNCHANGED <<irModule, moduleInstance, startFunction, globalsInit, invocations>>
    /\ UNCHANGED mainVars
    /\ UNCHANGED linkVars
    /\ UNCHANGED entryVars

\* The call of linkModule: a new, empty LinkResult.
LinkBegin ==
    /\ pc = "link"
    /\ Enter("Link")
    /\ linkResult' = EmptyLinkResult
    /\ Goto("resolve")
    /\ UNCHANGED <<irModule, emscriptenInstance, moduleNameToInstanceMap, moduleInstance,
                   startFunction, globalsInit, invocations, resolveLog, stubCount>>
    /\ UNCHANGED mainVars
    /\ UNCHANGED entryVars

\* One iteration of linkModule over the imports: resolve the next declaration
\* and collect the outcome.
ResolveImport ==
    /\ pc = "resolve"
    /\ Len(resolveLog) < Len(irModule.imports)
    /\ LET decl == irModule.imports[Len(resolveLog) + 1]
           r == Resolve(moduleNameToInstanceMap, decl.moduleName, decl.exportName,
                        decl.type, stubCount)
       IN  IF r.stubbed /\ StubKindUnreachable(decl.type)
           THEN /\ Fatal("unreachable")
                /\ UNCHANGED linkVars
           ELSE /\ resolveLog' = Append(resolveLog,
                        [decl |-> decl, ret |-> r.ret, outObject |-> r.outObject,
                         stubbed |-> r.stubbed])
                /\ stubCount' = IF r.stubbed THEN stubCount + 1 ELSE stubCount
                /\ linkResult' = LinkImport(linkResult, decl, r)
                /\ Goto("resolve")
    /\ UNCHANGED <<stages, irModule, emscriptenInstance, moduleNameToInstanceMap,
                   moduleInstance, startFunction, globalsInit, invocations>>
    /\ UNCHANGED mainVars
    /\ UNCHANGED entryVars

\* Mutant: run() goes on to instantiate after a failed link.
LinkEndIgnoresFailure ==
    /\ pc = "resolve"
    /\ Len(resolveLog) = Len(irModule.imports)
    /\ linkResult' = [linkResult EXCEPT !.success = LinkSuccess(linkResult)]
    /\ Goto("instantiate")
    /\ UNCHANGED <<stages, irModule, emscriptenInstance, moduleNameToInstanceMap,
                   moduleInstance, startFunction, globalsInit, invocations, resolveLog,
                   stubCount>>
    /\ UNCHANGED mainVars
    /\ UNCHANGED entryVars

\* Mutant: a failed link is raised as a fatal error.
LinkEndFatal ==
    /\ pc = "resolve"
    /\ Len(resolveLog) = Len(irModule.imports)
    /\ linkResult' = [linkResult EXCEPT !.success = LinkSuccess(linkResult)]
    /\ IF LinkSuccess(linkResult) THEN Goto("instantiate") ELSE Fatal("linkError")
    /\ UNCHANGED <<stages, irModule, emscriptenInstance, moduleNameToInstanceMap,
                   moduleInstance, startFunction, globalsInit, invocations, resolveLog,
                   stubCount>>
    /\ UNCHANGED mainVars
    /\ UNCHANGED entryVars

\* linkModule returns; run() gives up when the link did not succeed.
LinkEnd ==
    /\ pc = "resolve"
    /\ Len(resolveLog) = Len(irModule.imports)
    /\ linkResult' = [linkResult EXCEPT !.success = LinkSuccess(linkResult)]
    /\ IF LinkSuccess(linkResult) THEN Goto("instantiate") ELSE Return(EXIT_FAILURE)
    /\ UNCHANGED <<stages, irModule, emscriptenInstance, moduleNameToInstanceMap,
                   moduleInstance, startFunction, globalsInit, invocations, resolveLog,
                   stubCount>>
    /\ UNCHANGED mainVars
    /\ UNCHANGED entryVars

\* What an instantiated module can export under an entry-point name: nothing,
\* an object that is no function, or a function with one of the given
\* parameter counts (of an entry point only the parameter count is part of
\* the model; its results are those of the invocation).
EntryExports(name, counts) ==
    {NullObject, ExportObject("module", name, ExternTypeOf("global", 0, 0))}
    \cup { ExportObject("module", name, ExternTypeOf("function", p, 0)) : p \in counts }

Instances ==
    [live : {TRUE}, main : EntryExports("main", 0..MaxParams),
     umain : EntryExports("_main", {0, 2})]

\* instantiateModule for the main module: nullptr, or an instance.
InstantiateMain ==
    /\ pc = "instantiate"
    /\ Enter("InstantiateMainModule")
    /\ \E instance \in {NoInstance} \cup Instances :
          IF instance.live
          THEN /\ moduleInstance' = instance
               /\ Goto("start")
          ELSE /\ Return(EXIT_FAILURE)
               /\ UNCHANGED moduleInstance
    /\ UNCHANGED <<irModule, emscriptenInstance, moduleNameToInstanceMap, startFunction,
                   globalsInit, invocations>>
    /\ UNCHANGED mainVars
    /\ UNCHANGED linkVars
    /\ UNCHANGED entryVars

\* What the body of a module function does when invoked: it calls at most one
\* of the module's function imports (0: none) and may execute a trap itself.
Behaviours ==
    { b \in [call : 0..Len(irModule.imports), trap : BOOLEAN] :
        b.call > 0 => irModule.imports[b.call].type.kind = "function" }

Callee(b) == IF b.call = 0 THEN NullObject ELSE linkResult.resolvedImports[b.call]

\* Calling an object: a stub function's body is the unreachable operator.
CallTraps(object) == object.body = "unreachable"

\* The exception raised out of invokeFunctionChecked, if any.
InvokeTraps(b) == CallTraps(Callee(b)) \/ b.trap

Invocation(name, arguments, b) ==
    [fn |-> name, args |-> arguments, callee |-> Callee(b), trapped |-> InvokeTraps(b)]

\* Mutant: the start function is found but not invoked.
RunStartSkipsInvocation ==
    /\ pc = "start"
    /\ \E hasStart \in BOOLEAN :
          /\ startFunction' = hasStart
          /\ IF hasStart THEN Enter("RunStartFunction") ELSE UNCHANGED stages
    /\ Goto("globals")
    /\ UNCHANGED <<irModule, emscriptenInstance, moduleNameToInstanceMap, moduleInstance,
                   globalsInit, invocations>>
    /\ UNCHANGED mainVars
    /\ UNCHANGED linkVars
    /\ UNCHANGED entryVars

\* getStartFunction and, if the module has a start function, its invocation.
\* An exception out of it reaches the unhandled-exception handler of main().
RunStart ==
    /\ pc = "start"
    /\ \E hasStart \in BOOLEAN :
          /\ startFunction' = hasStart
          /\ IF hasStart
             THEN /\ Enter("RunStartFunction")
                  /\ \E b \in Behaviours :
                        /\ invocations' = Append(invocations, Invocation("start", <<>>, b))
                        /\ IF InvokeTraps(b) THEN Fatal("trap") ELSE Goto("globals")
             ELSE /\ Goto("globals")
                  /\ UNCHANGED <<stages, invocations>>
    /\ UNCHANGED <<irModule, emscriptenInstance, moduleNameToInstanceMap, moduleInstance,
                   globalsInit>>
    /\ UNCHANGED mainVars
    /\ UNCHANGED linkVars
    /\ UNCHANGED entryVars

\* Emscripten::initializeGlobals, called whether or not there is a shim.
InitGlobals ==
    /\ pc = "globals"
    /\ Enter("RunShimGlobalInit")
    /\ globalsInit' = globalsInit + 1
    /\ Goto("lookup")
    /\ UNCHANGED <<irModule, emscriptenInstance, moduleNameToInstanceMap, moduleInstance,
                   startFunction, invocations>>
    /\ UNCHANGED mainVars
    /\ UNCHANGED linkVars
    /\ UNCHANGED entryVars

\* asFunctionNullable: the object if it is a function, else nullptr.
AsFunctionNullable(object) ==
    IF object # NullObject /\ object.type.kind = "function" THEN object ELSE NullObject

\* The export names run() looks up, in order: "_main" only when "main" gave
\* no function.
EntryLookups(instance) ==
    IF AsFunctionNullable(instance.main) # NullObject
    THEN <<"main">>
    ELSE <<"main", "_main">>

\* Mutant: "_main" is preferred to "main".
EntryPointPrefersUmain(instance) ==
    IF AsFunctionNullable(instance.umain) # NullObject
    THEN AsFunctionNullable(instance.umain)
    ELSE AsFunctionNullable(instance.main)

\* The entry point run() settles on, nullptr if there is none.
EntryPoint(instance) ==
    IF AsFunctionNullable(instance.main) # NullObject
    THEN AsFunctionNullable(instance.main)
    ELSE AsFunctionNullable(instance.umain)

\* Mutant: run() goes on to the arity dispatch without an entry point.
LookupEntryPointIgnoresMissing ==
    /\ pc = "lookup"
    /\ Enter("LookupEntryPoint")
    /\ lookups' = lookups \o EntryLookups(moduleInstance)
    /\ function' = EntryPoint(moduleInstance)
    /\ Goto("marshal")
    /\ UNCHANGED <<irModule, emscriptenInstance, moduleNameToInstanceMap, moduleInstance,
                   startFunction, globalsInit, invocations, injections, invokeArgs,
                   functionResults>>
    /\ UNCHANGED mainVars
    /\ UNCHANGED linkVars

LookupEntryPoint ==
    /\ pc = "lookup"
    /\ Enter("LookupEntryPoint")
    /\ lookups' = lookups \o EntryLookups(moduleInstance)
    /\ function' = EntryPoint(moduleInstance)
    /\ IF EntryPoint(moduleInstance) = NullObject
       THEN Return(EXIT_FAILURE)
       ELSE Goto("marshal")
    /\ UNCHANGED <<irModule, emscriptenInstance, moduleNameToInstanceMap, moduleInstance,
                   startFunction, globalsInit, invocations, injections, invokeArgs,
                   functionResults>>
    /\ UNCHANGED mainVars
    /\ UNCHANGED linkVars

\* functionType.params().size()
ParamCount(object) == object.type.a

\* The two arities run() can invoke: no arguments, or argc/argv.
NeedsArgs(object) == ParamCount(object) = 2
\* Mutant: only more than 2 parameters are refused.
UnsupportedArityAboveTwo(object) == ParamCount(object) > 2
UnsupportedArity(object) == ~NeedsArgs(object) /\ ParamCount(object) > 0

\* Mutant: the token the option loop stopped at is dropped.
ArgStringsSkipsFirst == <<filename>> \o SubSeq(argv, args + 1, Len(argv))

\* argStrings: the filename, then every token from options.args to the null
\* that ends argv.
ArgStrings == <<filename>> \o SubSeq(argv, args, Len(argv))

I32(v) == [type |-> "i32", bits |-> v]
I64(v) == [type |-> "i64", bits |-> v]

\* Emscripten::injectCommandArgs: argc and the address of the marshaled argv.
InjectCommandArgs(argStrings) == <<I32(Len(argStrings)), I32(0)>>

\* wavmAssert is checked in builds with assertions and compiled out otherwise.
Builds == {"assertions", "noAssertions"}

\* The arity dispatch and the set-up of invokeArgs.  Without a shim instance
\* the assertion fails where it is checked; where it is compiled out,
\* injectCommandArgs is entered with a null instance and faults on it.
MarshalArgs ==
    /\ pc = "marshal"
    /\ Enter("MarshalArgs")
    /\ IF NeedsArgs(function)
       THEN IF emscriptenInstance
            THEN /\ injections' = Append(injections,
                                         [shim |-> TRUE, argStrings |-> ArgStrings])
                 /\ invokeArgs' = InjectCommandArgs(ArgStrings)
                 /\ Goto("invoke")
            ELSE \E build \in Builds :
                    IF build = "assertions"
                    THEN /\ Fatal("assert")
                         /\ UNCHANGED <<injections, invokeArgs>>
                    ELSE /\ injections' = Append(injections,
                                                 [shim |-> FALSE, argStrings |-> ArgStrings])
                         /\ Fatal("nullInstance")
                         /\ UNCHANGED invokeArgs
       ELSE /\ IF UnsupportedArity(function) THEN Return(EXIT_FAILURE) ELSE Goto("invoke")
            /\ UNCHANGED <<injections, invokeArgs>>
    /\ UNCHANGED <<irModule, emscriptenInstance, moduleNameToInstanceMap, moduleInstance,
                   startFunction, globalsInit, invocations, lookups, function,
                   functionResults>>
    /\ UNCHANGED mainVars
    /\ UNCHANGED linkVars

\* The value tuples an entry point can return.
ResultTuples ==
    { <<>>, <<I32(7)>>, <<I32(-1)>>, <<I64(7)>>, <<I32(7), I32(3)>> }

\* Mutant: an entry point that trapped is invoked a second time.
InvokeRetriesOnTrap ==
    /\ pc = "invoke"
    /\ \E b \in Behaviours :
          /\ invocations' = Append(invocations, Invocation(function.id.name, invokeArgs, b))
          /\ IF InvokeTraps(b)
             THEN /\ IF (\E i \in 1..Len(stages) : stages[i] = "Invoke")
                     THEN Fatal("trap") /\ UNCHANGED stages
                     ELSE Goto("invoke") /\ Enter("Invoke")
                  /\ UNCHANGED functionResults
             ELSE /\ \E results \in ResultTuples : functionResults' = results
                  /\ Goto("map")
                  /\ IF (\E i \in 1..Len(stages) : stages[i] = "Invoke") THEN UNCHANGED stages ELSE Enter("Invoke")
    /\ UNCHANGED <<irModule, emscriptenInstance, moduleNameToInstanceMap, moduleInstance,
                   startFunction, globalsInit, lookups, function, injections, invokeArgs>>
    /\ UNCHANGED mainVars
    /\ UNCHANGED linkVars

\* invokeFunctionChecked on the entry point.  An exception out of it reaches
\* the unhandled-exception handler of main().
Invoke ==
    /\ pc = "invoke"
    /\ Enter("Invoke")
    /\ \E b \in Behaviours :
          /\ invocations' = Append(invocations, Invocation(function.id.name, invokeArgs, b))
          /\ IF InvokeTraps(b)
             THEN /\ Fatal("trap")
                  /\ UNCHANGED functionResults
             ELSE /\ \E results \in ResultTuples : functionResults' = results
                  /\ Goto("map")
    /\ UNCHANGED <<irModule, emscriptenInstance, moduleNameToInstanceMap, moduleInstance,
                   startFunction, globalsInit, lookups, function, injections, invokeArgs>>
    /\ UNCHANGED mainVars
    /\ UNCHANGED linkVars

\* Mutant: a single result is returned whatever its type.
ExitStatusOfAnySingle(results) ==
    IF Len(results) = 1 THEN results[1].bits ELSE EXIT_SUCCESS

\* The value run() returns for the results of the entry point.
ExitStatusOf(results) ==
    IF Len(results) = 1 /\ results[1].type = "i32"
    THEN results[1].bits
    ELSE EXIT_SUCCESS

MapExitStatus ==
    /\ pc = "map"
    /\ Enter("MapExitStatus")
    /\ Return(ExitStatusOf(functionResults))
    /\ UNCHANGED <<irModule, emscriptenInstance, moduleNameToInstanceMap, moduleInstance,
                   startFunction, globalsInit, invocations>>
    /\ UNCHANGED mainVars
    /\ UNCHANGED linkVars
    /\ UNCHANGED entryVars

Next ==
    \/ ScanArg
    \/ AfterScan
    \/ Load
    \/ Compile
    \/ InstantiateShim
    \/ LinkBegin
    \/ ResolveImport
    \/ LinkEnd
    \/ InstantiateMain
    \/ RunStart
    \/ InitGlobals
    \/ LookupEntryPoint
    \/ MarshalArgs
    \/ Invoke
    \/ MapExitStatus

Spec == Init /\ [][Next]_vars

\* The process is one thread that executes main() and run() statement by
\* statement: whenever a next step exists it is eventually taken, every call
\* into the runtime returning or raising.
FairSpec == Spec /\ WF_vars(Next)

(* ------------------ getStubObject on arbitrary requests ----------------- *)
\* Largest number of consecutive calls of getStubObject.
MaxStubCalls == 2

\* The requests: an export name and an extern type of one of the five kinds
\* or of another kind (ExternKind::invalid).
StubNames == {"f", "g"}
StubRequestTypes ==
    { ExternTypeOf(k, a, b) : k \in StubKinds \cup {"invalid"}, a \in 0..1, b \in 0..1 }

InitStub ==
    /\ pc = "getStubObject"
    /\ argv = <<>>
    /\ args = 0
    /\ filename = NoFile
    /\ helpShown = 0
    /\ exitStatus = <<>>
    /\ fatal = ""
    /\ stages = <<>>
    /\ irModule = EmptyModule
    /\ emscriptenInstance = FALSE
    /\ moduleNameToInstanceMap = <<>>
    /\ linkResult = EmptyLinkResult
    /\ resolveLog = <<>>
    /\ stubCount = 0
    /\ moduleInstance = NoInstance
    /\ startFunction = FALSE
    /\ globalsInit = 0
    /\ lookups = <<>>
    /\ function = NullObject
    /\ injections = <<>>
    /\ invokeArgs = <<>>
    /\ invocations = <<>>
    /\ functionResults = <<>>

\* One call of getStubObject(exportName, type): the stub is returned, or the
\* default branch ends the process in Errors::unreachable().
StubCall ==
    /\ pc = "getStubObject"
    /\ Len(resolveLog) < MaxStubCalls
    /\ \E exportName \in StubNames, type \in StubRequestTypes :
          IF StubKindUnreachable(type)
          THEN /\ Fatal("unreachable")
               /\ resolveLog' = Append(resolveLog,
                      [decl |-> ImportDecl("", exportName, type), ret |-> FALSE,
                       outObject |-> NullObject, stubbed |-> TRUE])
               /\ UNCHANGED stubCount
          ELSE /\ Goto("getStubObject")
               /\ resolveLog' = Append(resolveLog,
                      [decl |-> ImportDecl("", exportName, type), ret |-> TRUE,
                       outObject |-> GetStubObject(exportName, type, stubCount),
                       stubbed |-> TRUE])
               /\ stubCount' = stubCount + 1
    /\ UNCHANGED <<stages, irModule, emscriptenInstance, moduleNameToInstanceMap,
                   linkResult, moduleInstance, startFunction, globalsInit, invocations>>
    /\ UNCHANGED mainVars
    /\ UNCHANGED entryVars

NextStub == StubCall

SpecStub == InitStub /\ [][NextStub]_vars

(* ============================ properties =============================== *)
Last(seq) == seq[Len(seq)]
Entered(stage) == \E i \in 1..Len(stages) : stages[i] = stage
Exited(status) == pc = "done" /\ fatal = "" /\ exitStatus = <<status>>

\* The registry as the claims speak of it.
Registered(decl) == decl.moduleName \in DOMAIN moduleNameToInstanceMap
Exported(decl) ==
    /\ Registered(decl)
    /\ decl.exportName \in DOMAIN moduleNameToInstanceMap[decl.moduleName]
ActualType(decl) == moduleNameToInstanceMap[decl.moduleName][decl.exportName]
Compatible(decl) ==
    /\ Exported(decl)
    /\ IsA(ExportObject(decl.moduleName, decl.exportName, ActualType(decl)), decl.type)
Mismatched(decl) == Exported(decl) /\ ~Compatible(decl)

\* linkModule has returned.
LinkFinished == Entered("Link") /\ pc # "resolve" /\ fatal # "unreachable"

\* The invocations of the entry point (all but that of the start function).
EntryInvocations == SelectSeq(invocations, LAMBDA e : e.fn # "start")

\* C1: every call of RootResolver.resolve has exactly one of three outcomes,
\* decided by the registry: a compatible export is bound as that very object;
\* an unregistered module or an absent export is bound to a newly synthesized
\* stub of the expected type and the call succeeds; an export of an
\* incompatible type makes the call fail and is never stubbed.
C1_ResolveOutcomes ==
    \A i \in 1..Len(resolveLog) :
        LET e == resolveLog[i]
            d == e.decl
        IN  /\ Compatible(d) =>
                /\ e.ret /\ ~e.stubbed
                /\ e.outObject = ExportObject(d.moduleName, d.exportName, ActualType(d))
            /\ ~Exported(d) =>
                /\ e.ret /\ e.stubbed
                /\ e.outObject.stub /\ e.outObject.type = d.type
                /\ \A j \in 1..(i - 1) : resolveLog[j].outObject # e.outObject
            /\ Mismatched(d) =>
                /\ ~e.ret /\ ~e.stubbed /\ ~e.outObject.stub

\* C1 witness: one pass with an absent export of a registered module stubbed
\* and an incompatible export rejected.
C1_Witness ==
    /\ \E i \in 1..Len(resolveLog) :
          Registered(resolveLog[i].decl) /\ resolveLog[i].stubbed
    /\ \E i \in 1..Len(resolveLog) : ~resolveLog[i].ret

\* C2: linking fails if and only if some import names a registered module and
\* an existing export of an incompatible type; and a failed link ends the run
\* with the failure exit status with no instantiation of the main module, no
\* start function and no entry-point invocation.
C2_LinkFailure ==
    LinkFinished =>
        /\ ~linkResult.success <=>
              \E i \in 1..Len(irModule.imports) : Mismatched(irModule.imports[i])
        /\ ~linkResult.success =>
              /\ Exited(EXIT_FAILURE)
              /\ Last(stages) = "Link"
              /\ ~moduleInstance.live
              /\ ~startFunction
              /\ invocations = <<>>

\* C2 witness: a failed link of a module that also has an absent import.
C2_Witness ==
    /\ LinkFinished /\ ~linkResult.success
    /\ \E i \in 1..Len(irModule.imports) : ~Exported(irModule.imports[i])

\* Import i is bound to object: resolve succeeded with it, and it is the
\* entry of resolvedImports that the i-th import's binding occupies.
BoundTo(i, object) ==
    /\ resolveLog[i].ret
    /\ resolveLog[i].outObject = object
    /\ Len(SelectSeq(SubSeq(resolveLog, 1, i), LAMBDA e : e.ret))
          \in 1..Len(linkResult.resolvedImports)
    /\ linkResult.resolvedImports[Len(SelectSeq(SubSeq(resolveLog, 1, i), LAMBDA e : e.ret))]
          = object

\* C3 as stated: at the end of every resolution pass every import is bound to
\* exactly one object whose type matches the declared type; none is left
\* unresolved.
C3_Original ==
    LinkFinished =>
        /\ Len(linkResult.resolvedImports) = Len(irModule.imports)
        /\ \A i \in 1..Len(irModule.imports) :
              /\ BoundTo(i, resolveLog[i].outObject)
              /\ IsA(resolveLog[i].outObject, irModule.imports[i].type)

\* C3 amended: at the end of every resolution pass every import that is not
\* type-mismatched is bound to exactly one object (real or stub) whose type
\* matches the declared type; a type-mismatched import is left unresolved,
\* reported missing and bound to nothing; so after a pass that succeeds every
\* import is bound.
C3_BoundOrRejected ==
    LinkFinished =>
        /\ Len(linkResult.resolvedImports) + Len(linkResult.missingImports)
              = Len(irModule.imports)
        /\ \A i \in 1..Len(irModule.imports) :
              IF Mismatched(irModule.imports[i])
              THEN ~resolveLog[i].ret
              ELSE /\ BoundTo(i, resolveLog[i].outObject)
                   /\ IsA(resolveLog[i].outObject, irModule.imports[i].type)
        /\ linkResult.success =>
              Len(linkResult.resolvedImports) = Len(irModule.imports)

\* C3 witness: a finished pass that bound one import to a real export of a
\* compatible, not identical, type and another to a stub.
C3_Witness ==
    /\ LinkFinished /\ linkResult.success
    /\ \E i \in 1..Len(resolveLog) :
          /\ ~resolveLog[i].stubbed
          /\ resolveLog[i].outObject.type # resolveLog[i].decl.type
    /\ \E i \in 1..Len(resolveLog) : resolveLog[i].stubbed

\* The bindings the calls of resolve have produced, in call order.
Bindings(log) ==
    LET ok == SelectSeq(log, LAMBDA e : e.ret)
    IN  [i \in 1..Len(ok) |-> ok[i].outObject]

\* C4: the link pass calls the resolver once for every import declaration, in
\* declaration order, without stopping at a failure; after the pass the
\* missing-imports list holds every type-mismatched import, in declaration
\* order, and the resolved-imports list the bindings of all others, in
\* declaration order.
C4_LinkPass ==
    /\ Len(resolveLog) <= Len(irModule.imports)
    /\ \A i \in 1..Len(resolveLog) : resolveLog[i].decl = irModule.imports[i]
    /\ LinkFinished =>
          /\ Len(resolveLog) = Len(irModule.imports)
          /\ linkResult.missingImports = SelectSeq(irModule.imports, Mismatched)
          /\ linkResult.resolvedImports = Bindings(resolveLog)
          /\ Len(linkResult.resolvedImports)
                = Len(SelectSeq(irModule.imports, LAMBDA d : ~Mismatched(d)))

\* C4 witness: a finished pass whose first import failed and whose second
\* import was resolved all the same.
C4_Witness ==
    /\ LinkFinished
    /\ Len(resolveLog) = 2
    /\ ~resolveLog[1].ret
    /\ resolveLog[2].ret
    /\ Len(linkResult.missingImports) = 1
    /\ Len(linkResult.resolvedImports) = 1

IsFunctionExport(object) == object # NullObject /\ object.type.kind = "function"
LookupDone == Entered("LookupEntryPoint")

\* C5 as stated: an export named "main" is the entry point; "_main" is looked
\* up only if no export named "main" exists; with neither exported the run
\* ends with the failure exit status and nothing is invoked as entry point.
C5_Original ==
    LookupDone =>
        /\ moduleInstance.main # NullObject =>
              function = moduleInstance.main /\ lookups = <<"main">>
        /\ lookups = <<"main", "_main">> => moduleInstance.main = NullObject
        /\ (moduleInstance.main = NullObject /\ moduleInstance.umain = NullObject) =>
              Exited(EXIT_FAILURE) /\ EntryInvocations = <<>>

\* C5 amended: a function export named "main" is the entry point; "_main" is
\* looked up only if "main" names no function export (so "main" wins when both
\* are exported functions), and is then the entry point if it names a function
\* export; if neither names a function export the run ends with the failure
\* exit status and nothing is invoked as entry point.
C5_EntryPoint ==
    LookupDone =>
        /\ IsFunctionExport(moduleInstance.main) =>
              function = moduleInstance.main /\ lookups = <<"main">>
        /\ ~IsFunctionExport(moduleInstance.main) =>
              /\ lookups = <<"main", "_main">>
              /\ IsFunctionExport(moduleInstance.umain) =>
                    function = moduleInstance.umain
        /\ (~IsFunctionExport(moduleInstance.main)
               /\ ~IsFunctionExport(moduleInstance.umain)) =>
              /\ Exited(EXIT_FAILURE)
              /\ function = NullObject
              /\ EntryInvocations = <<>>
        /\ \A i \in 1..Len(EntryInvocations) :
              EntryInvocations[i].fn = function.id.name

\* C5 witness: both names export functions and "main" has been invoked.
C5_Witness ==
    /\ IsFunctionExport(moduleInstance.main)
    /\ IsFunctionExport(moduleInstance.umain)
    /\ Len(EntryInvocations) = 1
    /\ EntryInvocations[1].fn = "main"

\* C6: an entry point of 0 parameters is invoked with an empty argument list
\* and nothing is marshaled; one of exactly 2 parameters is invoked with the
\* arguments marshaled through the shim before the call; any other parameter
\* count ends the run with the failure exit status and the entry point is
\* never invoked.
C6_ArityDispatch ==
    /\ \A i \in 1..Len(EntryInvocations) :
          \/ /\ function.type.a = 0
             /\ EntryInvocations[i].args = <<>>
             /\ injections = <<>>
          \/ /\ function.type.a = 2
             /\ Len(injections) = 1
             /\ injections[1].shim
             /\ injections[1].argStrings[1] = filename
             /\ Len(EntryInvocations[i].args) = 2
             /\ EntryInvocations[i].args[1] = I32(Len(injections[1].argStrings))
    /\ (Entered("MarshalArgs") /\ pc # "marshal" /\ function.type.a \notin {0, 2}) =>
          /\ Exited(EXIT_FAILURE)
          /\ EntryInvocations = <<>>
          /\ ~Entered("Invoke")
          /\ injections = <<>>
    /\ (injections # <<>>) => function.type.a = 2

\* C6 witness: an entry point of 2 parameters invoked with marshaled arguments
\* that hold more than the filename.
C6_Witness ==
    /\ Len(EntryInvocations) = 1
    /\ function.type.a = 2
    /\ Len(injections) = 1
    /\ Len(injections[1].argStrings) > 1

\* C7: after a completed invocation the exit status is the value of the
\* result if the entry point returned exactly one result of type i32, and the
\* success sentinel for every other shape of result.
C7_ExitStatus ==
    Entered("MapExitStatus") =>
        /\ pc = "done" /\ fatal = "" /\ Len(exitStatus) = 1
        /\ (Len(functionResults) = 1 /\ functionResults[1].type = "i32") =>
              exitStatus[1] = functionResults[1].bits
        /\ Len(functionResults) # 1 => exitStatus[1] = EXIT_SUCCESS
        /\ (Len(functionResults) = 1 /\ functionResults[1].type # "i32") =>
              exitStatus[1] = EXIT_SUCCESS

\* C7 witness: the entry point returned the single i32 value 7 and the run
\* exited with status 7.
C7_Witness ==
    /\ Entered("MapExitStatus")
    /\ functionResults = <<I32(7)>>
    /\ exitStatus = <<7>>

\* The run ended in a stage of the pipeline.
EndedIn(stage) == pc = "done" /\ stages # <<>> /\ Last(stages) = stage
BeforeInvoke ==
    {"Load", "Compile", "InstantiateShim", "Link", "InstantiateMainModule",
     "RunStartFunction", "RunShimGlobalInit", "LookupEntryPoint", "MarshalArgs"}

StubFunctionBound ==
    \E i \in 1..Len(linkResult.resolvedImports) :
        /\ linkResult.resolvedImports[i].stub
        /\ linkResult.resolvedImports[i].type.kind = "function"
StubCalled == \E i \in 1..Len(invocations) : invocations[i].callee.stub
OwnTrap ==
    \E i \in 1..Len(invocations) : invocations[i].trapped /\ ~invocations[i].callee.stub
NoShimForArgs == EndedIn("MarshalArgs") /\ function.type.a = 2 /\ ~emscriptenInstance

\* C9 as stated: a run that binds a function import to a stub and never calls
\* it completes with a normal exit status; a run whose start function or entry
\* point calls it ends fatally with no exit status.
C9_Original ==
    /\ (pc = "done" /\ StubFunctionBound /\ ~StubCalled) =>
          fatal = "" /\ Len(exitStatus) = 1
    /\ StubCalled => pc = "done" /\ fatal # "" /\ exitStatus = <<>>

\* C9 amended: a stub function traps on every call: a run whose start function
\* or entry point calls it ends fatally with no exit status; a run that binds
\* a stub and never calls it completes with a normal exit status unless the
\* module's own code traps or an entry point of 2 parameters finds no shim.
C9_StubTraps ==
    /\ (pc = "done" /\ StubFunctionBound /\ ~StubCalled /\ ~OwnTrap /\ ~NoShimForArgs) =>
          fatal = "" /\ Len(exitStatus) = 1
    /\ StubCalled => pc = "done" /\ fatal = "trap" /\ exitStatus = <<>>
    /\ \A i \in 1..Len(invocations) :
          invocations[i].callee.stub => invocations[i].trapped

\* C9 witness: the entry point called a stub bound to an absent import and the
\* run ended fatally.
C9_Witness ==
    /\ Len(EntryInvocations) = 1
    /\ EntryInvocations[1].callee.stub
    /\ EntryInvocations[1].callee.id.name = "missingFn"
    /\ fatal = "trap"

HelpGiven == \E i \in 1..Len(argv) : argv[i] \in {"-h", "--help"}
HelpRun == stages = <<>> /\ (pc = "done" => Exited(EXIT_SUCCESS) /\ helpShown = 1)

\* C10 as stated: if -h or --help is given, the program prints usage, exits
\* with the success status and enters no pipeline stage.
C10_Original == HelpGiven => HelpRun

\* C10 amended: if -h or --help is given as the first or the second token of
\* the command line (before the filename or right after it), the program
\* prints usage, exits with the success status and enters no pipeline stage;
\* a later -h or --help is an argument of the program.
C10_Help ==
    (\E i \in 1..Len(argv) : i <= 2 /\ argv[i] \in {"-h", "--help"}) =>
        HelpRun /\ pc \in {"scan", "done"}

\* C10 witness: -h right after the filename ended the run with usage printed
\* and the success status.
C10_Witness ==
    /\ Len(argv) >= 2 /\ argv[1] = "prog.wast" /\ argv[2] = "-h"
    /\ Exited(EXIT_SUCCESS)
    /\ helpShown = 1
    /\ stages = <<>>


\* The tokens that follow the filename on the command line.
TokensAfterFilename == SubSeq(argv, 2, Len(argv))

\* C11 as stated: once the filename is consumed no later token is interpreted
\* as an option of the runner, and an entry point of 2 parameters is given
\* exactly the filename followed by all the tokens after it.
C11_Original ==
    /\ filename # NoFile => helpShown = 0
    /\ \A i \in 1..Len(injections) :
          injections[i].argStrings = <<filename>> \o TokensAfterFilename

\* C11 amended: the filename is the first token; the token right after it is
\* still scanned as an option (-h or --help there prints usage and nothing is
\* run); if it is no help option, it and every later token are passed through
\* verbatim, in order, never interpreted: an entry point of 2 parameters is
\* given exactly the filename followed by all the tokens after it.
C11_PassThrough ==
    /\ args <= 2
    /\ filename # NoFile => filename = argv[1]
    /\ (filename # NoFile /\ helpShown > 0) =>
          /\ args = 2 /\ argv[2] \in {"-h", "--help"}
          /\ Exited(EXIT_SUCCESS) /\ stages = <<>>
    /\ \A i \in 1..Len(injections) :
          /\ injections[i].argStrings = <<filename>> \o TokensAfterFilename
          /\ injections[i].argStrings = argv
          /\ Len(argv) >= 2 => argv[2] \notin {"-h", "--help"}
    /\ \A i \in 1..Len(EntryInvocations) :
          function.type.a = 2 => EntryInvocations[i].args[1] = I32(Len(argv))

\* C11 witness: an entry point of 2 parameters was invoked with a help
\* spelling among the program arguments it was given.
C11_Witness ==
    /\ Len(EntryInvocations) = 1
    /\ Len(injections) = 1
    /\ injections[1].argStrings = <<"prog.wast", "prog.wast", "-h">>


\* C12: an entry point of exactly 2 parameters with no shim instance fails
\* with a precondition violation before any marshaling: injectCommandArgs is
\* never performed with an absent shim and the entry point is never invoked.
C12_ShimPrecondition ==
    /\ \A i \in 1..Len(injections) : injections[i].shim
    /\ (Entered("MarshalArgs") /\ pc # "marshal"
           /\ function.type.a = 2 /\ ~emscriptenInstance) =>
          /\ pc = "done" /\ fatal = "assert" /\ exitStatus = <<>>
          /\ injections = <<>>
          /\ EntryInvocations = <<>>


\* C13: for a requested extern type of kind function, memory, table, global
\* or exception-tag, getStubObject returns a stub of exactly that kind and
\* type (a function stub of that signature whose body traps, a global of that
\* value type and mutability holding zero); any other kind ends the process
\* fatally in the unreachable branch and returns nothing.
C13_StubShape ==
    /\ \A i \in 1..Len(resolveLog) :
          LET e == resolveLog[i]
              t == e.decl.type
          IN  IF t.kind \in {"function", "memory", "table", "global", "exceptionType"}
              THEN /\ e.ret
                   /\ e.outObject.stub
                   /\ e.outObject.type.kind = t.kind
                   /\ e.outObject.type.a = t.a /\ e.outObject.type.b = t.b
                   /\ t.kind = "global" => e.outObject.value = 0
                   /\ (t.kind = "function") <=> (e.outObject.body = "unreachable")
              ELSE /\ i = Len(resolveLog)
                   /\ ~e.ret /\ e.outObject = NullObject
                   /\ pc = "done" /\ fatal = "unreachable" /\ exitStatus = <<>>
    /\ fatal # "" =>
          /\ resolveLog # <<>>
          /\ Last(resolveLog).decl.type.kind = "invalid"
    /\ stubCount = Len(SelectSeq(resolveLog, LAMBDA e : e.ret))

\* C13 witness: an immutable global stub holding zero was returned, and the
\* next request, of another kind, ended the process in the unreachable branch.
C13_Witness ==
    /\ Len(resolveLog) = 2
    /\ resolveLog[1].decl.type = ExternTypeOf("global", 1, 0)
    /\ resolveLog[1].outObject.type = ExternTypeOf("global", 1, 0)
    /\ resolveLog[1].outObject.value = 0
    /\ resolveLog[2].decl.type.kind = "invalid"
    /\ fatal = "unreachable"


\* The stages of run() in their order, and those every complete run enters.
StageOrder ==
    <<"Load", "Compile", "InstantiateShim", "Link", "InstantiateMainModule",
      "RunStartFunction", "RunShimGlobalInit", "LookupEntryPoint", "MarshalArgs",
      "Invoke", "MapExitStatus">>
MandatoryStages ==
    {"Load", "Compile", "Link", "InstantiateMainModule", "LookupEntryPoint",
     "MarshalArgs", "Invoke", "MapExitStatus"}
StageRank ==
    [stage \in {StageOrder[k] : k \in 1..Len(StageOrder)} |->
        CHOOSE i \in 1..Len(StageOrder) : StageOrder[i] = stage]
Rank(stage) == StageRank[stage]
Failed == exitStatus # <<>> \/ fatal # ""
StartInvocations == SelectSeq(invocations, LAMBDA e : e.fn = "start")

\* The entered stages are in the fixed order, each once, every mandatory
\* stage before an entered one was entered and did not fail.
StagesInOrder ==
    /\ \A i \in 1..Len(stages) : \E k \in 1..Len(StageOrder) : StageOrder[k] = stages[i]
    /\ \A i, j \in 1..Len(stages) : i < j => Rank(stages[i]) < Rank(stages[j])
    /\ \A i \in 1..Len(stages) : \A m \in MandatoryStages :
          Rank(m) < Rank(stages[i]) => Entered(m)
    /\ Failed => pc = "done"
    /\ (Failed /\ stages # <<>> /\ Last(stages) # "MapExitStatus") =>
          (exitStatus = <<EXIT_FAILURE>> \/ fatal # "")
    /\ Entered("InstantiateMainModule") =>
          linkResult.success /\ linkResult.missingImports = <<>>
    /\ (\E i \in 1..Len(stages) : Rank(stages[i]) > Rank("InstantiateMainModule")) =>
          moduleInstance.live
    /\ Entered("RunStartFunction") <=> StartInvocations # <<>>
    /\ (\E i \in 1..Len(stages) : Rank(stages[i]) > Rank("RunStartFunction")) =>
          \A k \in 1..Len(StartInvocations) : ~StartInvocations[k].trapped
    /\ Entered("MarshalArgs") => function # NullObject
    /\ Entered("Invoke") =>
          /\ ParamCount(function) \in {0, 2}
          /\ ParamCount(function) = 2 => emscriptenInstance /\ Len(injections) = 1
    /\ Entered("MapExitStatus") =>
          /\ Len(EntryInvocations) = 1
          /\ ~EntryInvocations[1].trapped

\* C14: the stages of a run are entered only in the fixed order Load, Compile,
\* InstantiateShim, Link, InstantiateMainModule, RunStartFunction,
\* RunShimGlobalInit, LookupEntryPoint, MarshalArgs, Invoke, MapExitStatus:
\* each at most once, none after a later one, none retried, and a stage is
\* entered only when every earlier mandatory stage was entered and completed
\* without failure; a step that enters a stage enters exactly one, in a run
\* that has not failed.
C14_StageOrder ==
    /\ []StagesInOrder
    /\ [][stages' # stages =>
             /\ ~Failed
             /\ \E k \in 1..Len(StageOrder) : stages' = Append(stages, StageOrder[k])]_vars

\* C14 witness: a run that entered all eleven stages, in order, and exited.
C14_Witness ==
    /\ stages = StageOrder
    /\ pc = "done"
    /\ fatal = ""
    /\ Len(exitStatus) = 1


\* C15: the shim's global initializers are executed only on runs in which a
\* shim instance was instantiated, and are skipped on every run without one.
C15_GlobalInitRequiresShim ==
    /\ Entered("RunShimGlobalInit") => emscriptenInstance
    /\ globalsInit > 0 => emscriptenInstance
    /\ (~emscriptenInstance /\ Entered("LookupEntryPoint")) => globalsInit = 0


\* The run is over, with one outcome: an exit status, or a fatal termination.
Terminated ==
    /\ pc = "done"
    /\ \/ fatal = "" /\ Len(exitStatus) = 1
       \/ fatal # "" /\ exitStatus = <<>>

\* C16: every run terminates, single-shot: it eventually reaches, and stays
\* in, exactly one terminal outcome (an exit with one status, or a fatal
\* termination); until then it has no outcome; the entry point is invoked at
\* most once; and an exit status, once produced, is never produced again.
C16_SingleShot ==
    /\ <>[]Terminated
    /\ [](pc # "done" => ~Failed)
    /\ [](Len(EntryInvocations) <= 1 /\ Len(exitStatus) <= 1)
    /\ [][/\ exitStatus # <<>> => exitStatus' = exitStatus
          /\ fatal # "" => fatal' = fatal
          /\ Len(invocations') <= Len(invocations) + 1]_vars

\* C16 witness: a run that invoked its entry point once and exited with the
\* status it returned.
C16_Witness ==
    /\ Terminated
    /\ Len(EntryInvocations) = 1
    /\ ~EntryInvocations[1].trapped
    /\ exitStatus = <<7>>


\* The registry holds no name but env and asm2wasm, both or neither with the
\* shim; imports of other modules, and all imports without a shim, are stubs.
RegistryShape ==
    /\ DOMAIN moduleNameToInstanceMap \subseteq {"env", "asm2wasm"}
    /\ DOMAIN moduleNameToInstanceMap =
          IF emscriptenInstance THEN {"env", "asm2wasm"} ELSE {}
    /\ emscriptenInstance =>
          /\ Entered("InstantiateShim")
          /\ moduleNameToInstanceMap["env"] = EmscriptenExports.env
          /\ moduleNameToInstanceMap["asm2wasm"] = EmscriptenExports.asm2wasm
    /\ \A i \in 1..Len(resolveLog) :
          LET e == resolveLog[i]
          IN  (e.decl.moduleName \notin {"env", "asm2wasm"} \/ ~emscriptenInstance) =>
                 /\ e.stubbed /\ e.ret
                 /\ e.outObject.stub
                 /\ \E k \in 1..Len(linkResult.resolvedImports) :
                       linkResult.resolvedImports[k] = e.outObject
    /\ (~emscriptenInstance /\ LinkFinished) =>
          /\ linkResult.success
          /\ linkResult.missingImports = <<>>
          /\ exitStatus # <<EXIT_FAILURE>> \/ Entered("InstantiateMainModule")

\* C17: the registry holds at most the names "env" and "asm2wasm", both set
\* only when the shim was instantiated, and no step from the call of
\* linkModule on modifies it.  So an import whose module name is neither is
\* always bound to a stub, and without a shim the registry is empty, every
\* import is bound to a stub, and linking does not fail.
C17_Registry ==
    /\ []RegistryShape
    /\ [][Entered("InstantiateShim") =>
             moduleNameToInstanceMap' = moduleNameToInstanceMap]_vars

\* C17 witness: without a shim, an import of env and an import of another
\* module were both bound to stubs and the link succeeded.
C17_Witness ==
    /\ ~emscriptenInstance
    /\ moduleNameToInstanceMap = <<>>
    /\ Len(resolveLog) = 2
    /\ resolveLog[1].decl.moduleName = "env" /\ resolveLog[1].stubbed
    /\ resolveLog[2].decl.moduleName = "wasi" /\ resolveLog[2].stubbed
    /\ linkResult.success
    /\ pc = "instantiate"


\* The two failures of entry-point validation.
NoEntryPointFailure ==
    EndedIn("LookupEntryPoint") /\ exitStatus = <<EXIT_FAILURE>> /\ function = NullObject
UnsupportedArityFailure ==
    /\ EndedIn("MarshalArgs") /\ exitStatus = <<EXIT_FAILURE>>
    /\ ParamCount(function) \notin {0, 2}

\* C18: the entry point is validated only after module code may have run.  On
\* a run that ends with the no-entry-point failure or the unsupported-arity
\* failure the main module was instantiated, its start function (if it has
\* one) was invoked and returned, and the global-initializer step was
\* executed; the lookup and the arity check never come before the start
\* function.
C18_ValidationAfterStart ==
    /\ (NoEntryPointFailure \/ UnsupportedArityFailure) =>
          /\ moduleInstance.live
          /\ Entered("InstantiateMainModule")
          /\ globalsInit = 1 /\ Entered("RunShimGlobalInit")
          /\ startFunction =>
                /\ Entered("RunStartFunction")
                /\ Len(invocations) = 1
                /\ invocations[1].fn = "start" /\ ~invocations[1].trapped
          /\ ~startFunction => invocations = <<>>
    /\ (lookups # <<>> \/ Entered("LookupEntryPoint") \/ Entered("MarshalArgs")) =>
          /\ pc \notin {"instantiate", "start", "globals"}
          /\ globalsInit = 1
          /\ startFunction => invocations # <<>> /\ invocations[1].fn = "start"
    /\ \A i \in 1..Len(stages) :
          stages[i] = "RunStartFunction" =>
             \A j \in 1..i : stages[j] \notin {"LookupEntryPoint", "MarshalArgs"}
    /\ pc \in {"scan", "scanned", "load", "compile", "shim", "link", "resolve",
               "instantiate", "start"} => lookups = <<>> /\ function = NullObject

\* C18 witness: a module whose start function ran, and called an import, was
\* then refused for the arity of its entry point.
C18_Witness ==
    /\ UnsupportedArityFailure
    /\ startFunction
    /\ Len(invocations) = 1
    /\ invocations[1].fn = "start"
    /\ invocations[1].callee # NullObject


\* The objects synthesized so far, in order.
StubbedEntries == SelectSeq(resolveLog, LAMBDA e : e.stubbed)

\* Every stub-synthesizing resolve bound a new object.
StubsFresh ==
    /\ \A i, j \in 1..Len(resolveLog) :
          (i < j /\ resolveLog[i].stubbed /\ resolveLog[j].stubbed) =>
             /\ resolveLog[i].outObject # resolveLog[j].outObject
             /\ resolveLog[i].outObject.id # resolveLog[j].outObject.id
    /\ \A i \in 1..Len(resolveLog) :
          /\ resolveLog[i].stubbed <=> resolveLog[i].outObject.stub
          /\ ~resolveLog[i].stubbed =>
                /\ Exported(resolveLog[i].decl)
                /\ \A k \in 1..Len(resolveLog) :
                      resolveLog[k].stubbed =>
                         resolveLog[k].outObject.id # resolveLog[i].outObject.id
    /\ stubCount = Len(StubbedEntries)
    /\ \A m \in DOMAIN moduleNameToInstanceMap :
          moduleNameToInstanceMap[m] \in {EmscriptenExports.env, EmscriptenExports.asm2wasm}

\* C19: stubs are never cached or shared.  Every resolve that falls through
\* to stub synthesis creates a new object: two import declarations with the
\* same absent module name, export name and type are bound to two distinct
\* stubs; a stub is never put into the registry (a resolve leaves the
\* registry as it is and adds exactly one stub) nor returned for a later
\* import.
C19_FreshStubs ==
    /\ []StubsFresh
    /\ [][resolveLog' # resolveLog =>
             /\ moduleNameToInstanceMap' = moduleNameToInstanceMap
             /\ stubCount' \in {stubCount, stubCount + 1}
             /\ (stubCount' = stubCount + 1) <=> Last(resolveLog').stubbed]_vars

\* C19 witness: two identical declarations of an absent global import are
\* bound to two distinct stub globals.
C19_Witness ==
    /\ Len(resolveLog) = 2
    /\ resolveLog[1].decl = resolveLog[2].decl
    /\ resolveLog[1].decl.type.kind = "global"
    /\ resolveLog[1].stubbed /\ resolveLog[2].stubbed
    /\ resolveLog[1].outObject # resolveLog[2].outObject
    /\ resolveLog[1].outObject.type = resolveLog[2].outObject.type

====
